---- MODULE Spec2Model ----
(***************************************************************************)
(* FinancialStatementAnalyzer (Python/DataProcessing/                      *)
(* financial_statement_analyzer.py): the analyzer object's stored          *)
(* statements and ratios, and its operations load_statements_from_excel,   *)
(* calculate_financial_ratios and generate_summary_report.                 *)
(*                                                                         *)
(* Numbers.  A float is a pair <<n, d>>: d > 0 is the rational n/d in      *)
(* lowest terms, <<0, -1>> is -0.0, <<1, 0>> and <<-1, 0>> are +inf and    *)
(* -inf, <<0, 0>> is NaN.  Arithmetic on finite values is exact: the       *)
(* rounding error of a double (relative 2^-53) is not modelled.            *)
(***************************************************************************)
EXTENDS Integers, Sequences, FiniteSets, TLC

VARIABLES income_statement, balance_sheet, cash_flow, ratios, ret

vars == <<income_statement, balance_sheet, cash_flow, ratios, ret>>

(***************************************************************************)
(* Floating-point values and the two operators the code applies to them.   *)
(***************************************************************************)
NaN == <<0, 0>>

PosInf == <<1, 0>>

NegInf == <<-1, 0>>

NegZero == <<0, -1>>

One == <<1, 1>>

Num(v) == <<v, 1>>

AbsInt(n) == IF n < 0 THEN -n ELSE n

RECURSIVE GCD(_, _)
GCD(a, b) == IF b = 0 THEN a ELSE GCD(b, a % b)

IsNaN(x) == x = NaN

IsInf(x) == x[2] = 0 /\ x[1] # 0

IsFinite(x) == x[2] # 0

IsZero(x) == x[2] # 0 /\ x[1] = 0

\* The sign bit: set for negative values, -inf and -0.0.
SignBit(x) == x[1] < 0 \/ x = NegZero

\* The finite value n/d (d > 0), signed zero included.
Finite(n, d, neg) ==
    IF n = 0
    THEN IF neg THEN NegZero ELSE <<0, 1>>
    ELSE LET g == GCD(AbsInt(n), d) IN <<n \div g, d \div g>>

Infinite(neg) == IF neg THEN NegInf ELSE PosInf

Negate(x) ==
    IF IsNaN(x) THEN NaN
    ELSE IF x = NegZero THEN <<0, 1>>
    ELSE IF IsZero(x) THEN NegZero
    ELSE <<-x[1], x[2]>>

\* Div with a zero divisor special-cased to give 0.
DivZeroIsZero(a, b) ==
    IF IsNaN(a) \/ IsNaN(b) THEN NaN
    ELSE IF IsInf(a) \/ IsInf(b) \/ IsZero(b) \/ IsZero(a) THEN <<0, 1>>
    ELSE Finite((IF SignBit(a) # SignBit(b) THEN -1 ELSE 1) * AbsInt(a[1]) * b[2],
                a[2] * AbsInt(b[1]), FALSE)

\* numpy / pandas true division of two numeric values: a zero divisor gives
\* +-inf, or NaN for 0/0, and never raises.
Div(a, b) ==
    LET neg == SignBit(a) # SignBit(b) IN
    IF IsNaN(a) \/ IsNaN(b) THEN NaN
    ELSE IF IsInf(a) THEN (IF IsInf(b) THEN NaN ELSE Infinite(neg))
    ELSE IF IsInf(b) THEN Finite(0, 1, neg)
    ELSE IF IsZero(b) THEN (IF IsZero(a) THEN NaN ELSE Infinite(neg))
    ELSE IF IsZero(a) THEN Finite(0, 1, neg)
    ELSE Finite((IF neg THEN -1 ELSE 1) * AbsInt(a[1]) * b[2],
                a[2] * AbsInt(b[1]), neg)

\* Float subtraction a - b.
Sub(a, b) ==
    IF IsNaN(a) \/ IsNaN(b) THEN NaN
    ELSE IF IsInf(a) THEN (IF IsInf(b) /\ a = b THEN NaN ELSE a)
    ELSE IF IsInf(b) THEN Negate(b)
    ELSE LET an == IF IsZero(a) THEN 0 ELSE a[1]
             ad == IF IsZero(a) THEN 1 ELSE a[2]
             bn == IF IsZero(b) THEN 0 ELSE b[1]
             bd == IF IsZero(b) THEN 1 ELSE b[2]
         IN  Finite(an * bd - bn * ad, ad * bd, a = NegZero /\ b = <<0, 1>>)

(***************************************************************************)
(* Python format specifications used by the report: .2f, ,.2f and .2%.     *)
(***************************************************************************)
TwoDigits(n) == IF n < 10 THEN "0" \o ToString(n) ELSE ToString(n)

ThreeDigits(n) ==
    IF n < 10 THEN "00" \o ToString(n)
    ELSE IF n < 100 THEN "0" \o ToString(n) ELSE ToString(n)

\* The integer part with a comma between groups of three digits.
RECURSIVE Grouped(_)
Grouped(n) ==
    IF n < 1000 THEN ToString(n)
    ELSE Grouped(n \div 1000) \o "," \o ThreeDigits(n % 1000)

\* |x| * scale rounded to an integer, ties to even (x finite).
RoundHalfEven(x, scale) ==
    LET n == AbsInt(x[1]) * scale
        d == AbsInt(x[2])
        q == n \div d
        r == n % d
    IN  IF 2 * r > d \/ (2 * r = d /\ q % 2 = 1) THEN q + 1 ELSE q

\* The digits of a finite x scaled by `scale`, to two decimals.
Fixed2(x, scale, grouping) ==
    LET h == RoundHalfEven(x, 100 * scale)
        whole == h \div 100
    IN  (IF SignBit(x) THEN "-" ELSE "")
        \o (IF grouping THEN Grouped(whole) ELSE ToString(whole))
        \o "." \o TwoDigits(h % 100)

NonFinite(x) == IF IsNaN(x) THEN "nan" ELSE IF SignBit(x) THEN "-inf" ELSE "inf"

\* f"{x:.2f}"
Fmt2f(x) == IF IsFinite(x) THEN Fixed2(x, 1, FALSE) ELSE NonFinite(x)

\* f"{x:,.2f}"
FmtMoney(x) == IF IsFinite(x) THEN Fixed2(x, 1, TRUE) ELSE NonFinite(x)

\* f"{x:.2%}"
FmtPct(x) == (IF IsFinite(x) THEN Fixed2(x, 100, FALSE) ELSE NonFinite(x)) \o "%"

(***************************************************************************)
(* Statements.  A DataFrame is its ordered column labels (the periods),    *)
(* its row labels (the line items) and a value per row and column; an      *)
(* attribute that is None is the record None.  Column labels are unique    *)
(* and the values numeric (int64 or float64), never of object dtype.       *)
(***************************************************************************)
None == [none |-> TRUE, cols |-> <<>>, rows |-> {}, val |-> <<>>]

Range(s) == {s[i] : i \in DOMAIN s}

IncomeRows ==
    {"Revenue", "Cost of Goods Sold", "Gross Profit", "Operating Income", "Net Income"}

BalanceRows ==
    {"Current Assets", "Inventory", "Total Assets", "Current Liabilities",
     "Total Liabilities", "Total Equity"}

CashRows == {"Operating Cash Flow"}

\* The period labels statements are drawn from; "" is a label bool() takes as false.
LabelOrder == <<"", "2023-Q1", "2023-Q2">>

Labels == Range(LabelOrder)

\* The most periods a statement given to the constructor has.
MaxPeriods == 3

Column(rev, cogs, gp, oi, ni, ca, inv, ta, cl, tl, te, ocf) ==
    "Revenue" :> rev @@ "Cost of Goods Sold" :> cogs @@ "Gross Profit" :> gp
    @@ "Operating Income" :> oi @@ "Net Income" :> ni
    @@ "Current Assets" :> ca @@ "Inventory" :> inv @@ "Total Assets" :> ta
    @@ "Current Liabilities" :> cl @@ "Total Liabilities" :> tl
    @@ "Total Equity" :> te @@ "Operating Cash Flow" :> ocf

\* Dataset 1: the example statements of main() (its 2023-Q1, 2023-Q2 and, under
\* the label "", 2023-Q3 columns), with Operating Income = Gross Profit -
\* Operating Expenses.  Dataset 2: zero, negative and NaN line items.
Ledger(d) ==
    IF d = 1
    THEN "2023-Q1" :> Column(Num(1000000), Num(600000), Num(400000), Num(150000),
                             Num(150000), Num(500000), Num(100000), Num(2100000),
                             Num(400000), Num(1200000), Num(900000), Num(200000))
      @@ "2023-Q2" :> Column(Num(1050000), Num(620000), Num(430000), Num(170000),
                             Num(170000), Num(520000), Num(110000), Num(2150000),
                             Num(410000), Num(1230000), Num(920000), Num(210000))
      @@ "" :>        Column(Num(1100000), Num(640000), Num(460000), Num(190000),
                             Num(190000), Num(550000), Num(120000), Num(2220000),
                             Num(430000), Num(1270000), Num(950000), Num(220000))
    ELSE "2023-Q1" :> Column(Num(0), Num(0), Num(0), Num(-2), Num(-1), Num(4),
                             Num(4), Num(0), Num(0), Num(5), Num(-5), Num(0))
      @@ "2023-Q2" :> Column(Num(8), Num(5), Num(3), Num(2), Num(0), Num(3),
                             Num(0), Num(16), Num(2), Num(0), Num(-4), NaN)
      @@ "" :>        Column(NaN, Num(1), Num(1), Num(3), Num(1), NaN,
                             Num(1), Num(32), Num(1), Num(1), Num(0), Num(1))

Datasets == {1, 2}

\* pd.DataFrame with the given columns and rows, filled from dataset d.
DataFrame(cols, rows, d) ==
    [none |-> FALSE, cols |-> cols, rows |-> rows,
     val |-> [r \in rows |-> [p \in Range(cols) |-> Ledger(d)[p][r]]]]

\* Sequences of distinct labels, exactly n long.
RECURSIVE Arrangements(_)
Arrangements(n) ==
    IF n = 0 THEN {<<>>}
    ELSE UNION {{Append(s, p) : p \in Labels \ Range(s)} : s \in Arrangements(n - 1)}

\* The columns of a statement: one to n distinct labels in any order.  A
\* statement always has at least one period.
ColumnOrders(n) == UNION {Arrangements(k) : k \in 1..n}

\* The column orders that follow LabelOrder: one for each set of labels.
Ascending(s) ==
    \A i, j \in DOMAIN s :
        i < j => \E a, b \in DOMAIN LabelOrder :
                    a < b /\ LabelOrder[a] = s[i] /\ LabelOrder[b] = s[j]

(***************************************************************************)
(* calculate_financial_ratios.                                             *)
(***************************************************************************)
\* The index of the ratios frame (lines 82-85), in order.
RatioNames ==
    <<"Current Ratio", "Quick Ratio", "Debt-to-Equity", "Gross Margin",
      "Operating Margin", "Net Margin", "Return on Assets", "Return on Equity",
      "Inventory Turnover", "Asset Turnover">>

Op(src, row) == [src |-> src, row |-> row]

\* The Quick Ratio without the subtraction of Inventory.
QuickRatioKeepsInventory ==
    [num |-> Op("balance", "Current Assets"), less |-> <<>>,
     den |-> Op("balance", "Current Liabilities")]

\* Lines 97-100: (Current Assets - Inventory) / Current Liabilities.
QuickRatio ==
    [num |-> Op("balance", "Current Assets"),
     less |-> <<Op("balance", "Inventory")>>,
     den |-> Op("balance", "Current Liabilities")]

\* The ten assignments of lines 91-151: row i of the frame is num / den, or
\* (num - less) / den, each operand a .loc[row] of the named statement.
Formulas ==
    <<[num |-> Op("balance", "Current Assets"), less |-> <<>>,
       den |-> Op("balance", "Current Liabilities")],
      QuickRatio,
      [num |-> Op("balance", "Total Liabilities"), less |-> <<>>,
       den |-> Op("balance", "Total Equity")],
      [num |-> Op("income", "Gross Profit"), less |-> <<>>,
       den |-> Op("income", "Revenue")],
      [num |-> Op("income", "Operating Income"), less |-> <<>>,
       den |-> Op("income", "Revenue")],
      [num |-> Op("income", "Net Income"), less |-> <<>>,
       den |-> Op("income", "Revenue")],
      [num |-> Op("income", "Net Income"), less |-> <<>>,
       den |-> Op("balance", "Total Assets")],
      [num |-> Op("income", "Net Income"), less |-> <<>>,
       den |-> Op("balance", "Total Equity")],
      [num |-> Op("income", "Cost of Goods Sold"), less |-> <<>>,
       den |-> Op("balance", "Inventory")],
      [num |-> Op("income", "Revenue"), less |-> <<>>,
       den |-> Op("balance", "Total Assets")]>>

\* The operands of a formula in the order Python evaluates them.
Operands(f) == <<f.num>> \o f.less \o <<f.den>>

Statement(src, inc, bal) == IF src = "income" THEN inc ELSE bal

\* df.loc[row] raises KeyError(row) when row is not in the index.
HasRow(df, row) == row \in df.rows

\* The first operand of f whose .loc[row] raises, or 0.
FirstMissing(f, inc, bal) ==
    LET ops == Operands(f)
        bad == {i \in DOMAIN ops : ~HasRow(Statement(ops[i].src, inc, bal), ops[i].row)}
    IN  IF bad = {} THEN 0 ELSE CHOOSE i \in bad : \A j \in bad : i <= j

\* df.loc[row]: a Series, here a function from the column labels.
Loc(df, row) == df.val[row]

\* Series arithmetic aligns the two indexes on their union; a label only one
\* operand has gives NaN.
SeriesDiv(s, t) ==
    [p \in DOMAIN s \cup DOMAIN t |->
        IF p \in DOMAIN s /\ p \in DOMAIN t THEN Div(s[p], t[p]) ELSE NaN]

SeriesSub(s, t) ==
    [p \in DOMAIN s \cup DOMAIN t |->
        IF p \in DOMAIN s /\ p \in DOMAIN t THEN Sub(s[p], t[p]) ELSE NaN]

\* The right-hand side of the assignment for formula f.
Evaluate(f, inc, bal) ==
    LET num == Loc(Statement(f.num.src, inc, bal), f.num.row)
        den == Loc(Statement(f.den.src, inc, bal), f.den.row)
        top == IF f.less = <<>> THEN num
               ELSE SeriesSub(num, Loc(Statement(f.less[1].src, inc, bal), f.less[1].row))
    IN  SeriesDiv(top, den)

\* pd.DataFrame(index=index, columns=columns): every cell NaN.
EmptyFrame(index, columns) ==
    [none |-> FALSE, cols |-> columns, rows |-> Range(index),
     val |-> [r \in Range(index) |-> [p \in Range(columns) |-> NaN]]]

\* frame.loc[row] = series: the series is reindexed to the frame's columns.
SetRow(frame, row, series) ==
    [frame EXCEPT !.val[row] =
        [p \in Range(frame.cols) |-> IF p \in DOMAIN series THEN series[p] ELSE NaN]]

\* Periods taken from the balance sheet instead.
PeriodsOfBalance(inc, bal) == bal.cols

\* The periods the ratios frame is created with (line 81).
Periods(inc, bal) == inc.cols

\* The body of the try block from assignment i on: the frame and how it ended.
RECURSIVE FillFrom(_, _, _, _)
FillFrom(i, frame, inc, bal) ==
    IF i > Len(Formulas)
    THEN [frame |-> frame, caught |-> "none", key |-> "", filled |-> i - 1]
    ELSE LET f == Formulas[i] IN
         IF FirstMissing(f, inc, bal) # 0
         THEN [frame |-> frame, caught |-> "KeyError",
               key |-> Operands(f)[FirstMissing(f, inc, bal)].row, filled |-> i - 1]
         ELSE FillFrom(i + 1, SetRow(frame, RatioNames[i], Evaluate(f, inc, bal)),
                       inc, bal)

\* The guard with `and` for `or`.
InputsBothAbsent(inc, bal) == inc.none /\ bal.none

\* Lines 76-78: the statements the computation cannot start without.
InputsAbsent(inc, bal) == inc.none \/ bal.none

\* The except branch returning the frame as far as it was filled.
OutcomePartial(run) ==
    [returned |-> run.frame, stored |-> TRUE, caught |-> run.caught, key |-> run.key,
     filled |-> run.filled,
     printed |-> IF run.caught = "none" THEN <<>>
                 ELSE <<"Error calculating ratios: '" \o run.key \o "'">>]

\* The try block returning the frame without assigning self.ratios.
OutcomeNotStored(run) ==
    IF run.caught = "none"
    THEN [returned |-> run.frame, stored |-> FALSE, caught |-> "none", key |-> "",
          filled |-> run.filled, printed |-> <<>>]
    ELSE [returned |-> None, stored |-> FALSE, caught |-> run.caught,
          key |-> run.key, filled |-> run.filled,
          printed |-> <<"Error calculating ratios: '" \o run.key \o "'">>]

\* Lines 153-158: how the call ends after the try block ran.
Outcome(run) ==
    IF run.caught = "none"
    THEN [returned |-> run.frame, stored |-> TRUE, caught |-> "none", key |-> "",
          filled |-> run.filled, printed |-> <<>>]
    ELSE [returned |-> None, stored |-> FALSE, caught |-> run.caught,
          key |-> run.key, filled |-> run.filled,
          printed |-> <<"Error calculating ratios: '" \o run.key \o "'">>]

\* The computation skipped, and nothing returned, once a table is held.
CalculateOnlyOnce(inc, bal) ==
    IF ~ratios.none
    THEN [returned |-> None, stored |-> FALSE, caught |-> "none", key |-> "",
          filled |-> 0, printed |-> <<>>]
    ELSE IF InputsAbsent(inc, bal)
    THEN [returned |-> None, stored |-> FALSE, caught |-> "none", key |-> "",
          filled |-> 0,
          printed |-> <<"Income statement and balance sheet are required to calculate ratios">>]
    ELSE Outcome(FillFrom(1, EmptyFrame(RatioNames, Periods(inc, bal)), inc, bal))

\* What one call does with the statements inc and bal: the value returned, the
\* value assigned to self.ratios if one is (stored), the lines printed, the
\* exception caught and the number of ratio rows assigned before it ended.
calculate_financial_ratios(inc, bal) ==
    IF InputsAbsent(inc, bal)
    THEN [returned |-> None, stored |-> FALSE, caught |-> "none", key |-> "",
          filled |-> 0,
          printed |-> <<"Income statement and balance sheet are required to calculate ratios">>]
    ELSE Outcome(FillFrom(1, EmptyFrame(RatioNames, Periods(inc, bal)), inc, bal))

\* generate_summary_report calls the method only when self.ratios is None
\* (lines 243-244); otherwise nothing is computed.
NotCalled ==
    [returned |-> None, stored |-> FALSE, caught |-> "none", key |-> "",
     filled |-> 0, printed |-> <<>>]

(***************************************************************************)
(* generate_summary_report.                                                *)
(***************************************************************************)
\* bool(label), as `if previous_period:` takes it (line 280).
Truthy(label) == label # ""

\* df.loc[row, col] reads the column first: the key of the KeyError it
\* raises, as a sequence that is empty when the cell exists.
MissingKey(df, row, col) ==
    IF col \notin Range(df.cols) THEN <<col>>
    ELSE IF row \notin df.rows THEN <<row>>
    ELSE <<>>

RECURSIVE Join(_)
Join(lines) ==
    IF lines = <<>> THEN ""
    ELSE IF Len(lines) = 1 THEN lines[1]
    ELSE lines[1] \o "\n" \o Join(Tail(lines))

\* Lines 250-251.
LatestPeriod(rat) == rat.cols[Len(rat.cols)]

PreviousPeriod(rat) == IF Len(rat.cols) > 1 THEN <<rat.cols[Len(rat.cols) - 1]>> ELSE <<>>

\* Line 280: whether the period-over-period block runs.
HasPrevious(previous) == previous # <<>> /\ Truthy(previous[1])

\* Lines 255-277.
KeyMetrics(inc, rat, latest, today) ==
    <<"# Financial Statement Analysis Summary Report",
      "## Period: " \o latest,
      "Generated on: " \o today \o "\n",
      "## Key Financial Metrics\n",
      "### Revenue and Profit",
      "- Revenue: $" \o FmtMoney(inc.val["Revenue"][latest]),
      "- Net Income: $" \o FmtMoney(inc.val["Net Income"][latest]),
      "- Net Margin: " \o FmtPct(rat.val["Net Margin"][latest]) \o "\n",
      "### Liquidity",
      "- Current Ratio: " \o Fmt2f(rat.val["Current Ratio"][latest]),
      "- Quick Ratio: " \o Fmt2f(rat.val["Quick Ratio"][latest]) \o "\n",
      "### Profitability",
      "- Return on Assets (ROA): " \o FmtPct(rat.val["Return on Assets"][latest]),
      "- Return on Equity (ROE): " \o FmtPct(rat.val["Return on Equity"][latest]) \o "\n">>

\* Lines 284-301: the three period-over-period figures.
RevenueGrowth(inc, latest, previous) ==
    Sub(Div(inc.val["Revenue"][latest], inc.val["Revenue"][previous]), One)

NetIncomeGrowth(inc, latest, previous) ==
    Sub(Div(inc.val["Net Income"][latest], inc.val["Net Income"][previous]), One)

\* The margin change as a growth rate instead of a difference.
MarginChangeRelative(rat, latest, previous) ==
    Sub(Div(rat.val["Net Margin"][latest], rat.val["Net Margin"][previous]), One)

MarginChange(rat, latest, previous) ==
    Sub(rat.val["Net Margin"][latest], rat.val["Net Margin"][previous])

\* Lines 281-302.
Changes(inc, rat, latest, previous) ==
    <<"## Period-over-Period Changes\n",
      "- Revenue Growth: " \o FmtPct(RevenueGrowth(inc, latest, previous)),
      "- Net Income Growth: " \o FmtPct(NetIncomeGrowth(inc, latest, previous)),
      "- Net Margin Change: " \o FmtPct(MarginChange(rat, latest, previous))
          \o " points\n">>

\* Lines 305-308.
Insights ==
    <<"## Insights and Recommendations\n",
      "1. Placeholder for automated insights based on financial analysis",
      "2. Placeholder for recommendations based on trend analysis",
      "3. Placeholder for risk assessment\n">>

\* The income-statement cells the report reads, in the order it reads them.
ReportLookups(latest, previous) ==
    <<<<"Revenue", latest>>, <<"Net Income", latest>>>>
    \o (IF HasPrevious(previous)
        THEN <<<<"Revenue", previous[1]>>, <<"Net Income", previous[1]>>>>
        ELSE <<>>)

\* Lines 310-319: the list joined, written to output_path if one is given
\* ("" stands for None), and returned.  The write is taken to succeed.
Saved(lines, text, output_path) ==
    [raised |-> "none", key |-> "", lines |-> lines, text |-> text,
     written |-> IF output_path # "" THEN text ELSE "",
     printed |-> IF output_path # ""
                 THEN <<"Report saved to " \o output_path>> ELSE <<>>]

Finished(lines, output_path) == Saved(lines, Join(lines), output_path)

\* Lines 249-319 with self.ratios = rat (not None): the exception that leaves
\* the method, or the report.
Compose(inc, rat, today, output_path) ==
    LET failed(exc, key) ==
            [raised |-> exc, key |-> key, lines |-> <<>>, text |-> "",
             written |-> "", printed |-> <<>>]
    IN
    IF Len(rat.cols) = 0 THEN failed("IndexError", "")
    ELSE IF inc.none THEN failed("AttributeError", "loc")
    ELSE
      LET latest == LatestPeriod(rat)
          previous == PreviousPeriod(rat)
          looks == ReportLookups(latest, previous)
          bad == {i \in DOMAIN looks : MissingKey(inc, looks[i][1], looks[i][2]) # <<>>}
      IN
      IF bad # {}
      THEN LET i == CHOOSE i \in bad : \A j \in bad : i <= j
           IN  failed("KeyError", MissingKey(inc, looks[i][1], looks[i][2])[1])
      ELSE
        Finished(KeyMetrics(inc, rat, latest, today)
                 \o (IF HasPrevious(previous)
                     THEN Changes(inc, rat, latest, previous[1]) ELSE <<>>)
                 \o Insights,
                 output_path)

(***************************************************************************)
(* The analyzer.  ret records what the last call did: the value it         *)
(* returned (table, text or ok), the exception that left it (raised), the  *)
(* exception calculate_financial_ratios caught, the lines it printed, the  *)
(* text it wrote to output_path, whether self.ratios was set on entry      *)
(* (had_ratios) and, for a report, the list the text was joined from.      *)
(***************************************************************************)
Returned(op) ==
    [op |-> op, table |-> None, text |-> "", ok |-> TRUE, raised |-> "none",
     caught |-> "none", key |-> "", printed |-> <<>>, written |-> "",
     had_ratios |-> FALSE, filled |-> 0, lines |-> <<>>]

\* The slot assigned only while it is still None.
StoreOnce(current, out) ==
    IF out.stored /\ current.none THEN out.returned ELSE current

\* The slot reset to None by a call that fails.
StoreOrClear(current, out) == IF out.stored THEN out.returned ELSE None

\* self.ratios after a call of calculate_financial_ratios that ended as `out`:
\* line 153 assigns the new frame; a call that returns None assigns nothing.
Store(current, out) == IF out.stored THEN out.returned ELSE current

\* The dates datetime.now() gives and the output_path arguments ("" for None).
Dates == {"2025-09-09", "2025-09-10"}

OutputPaths == {"", "report.md"}

NoRatiosText == "Unable to generate report without financial ratios."

\* calculate_financial_ratios()
Calculate ==
    \E out \in {calculate_financial_ratios(income_statement, balance_sheet)} :
    /\ ratios' = Store(ratios, out)
    /\ ret' = [Returned("calculate_financial_ratios") EXCEPT
                  !.had_ratios = ~ratios.none, !.table = out.returned, !.caught = out.caught, !.key = out.key,
                  !.printed = out.printed, !.filled = out.filled]
    /\ UNCHANGED <<income_statement, balance_sheet, cash_flow>>

\* generate_summary_report(output_path)
Report ==
    \E today \in Dates, output_path \in OutputPaths :
    \E calc \in {IF ratios.none
                 THEN calculate_financial_ratios(income_statement, balance_sheet)
                 ELSE NotCalled} :
    \E now \in {Store(ratios, calc)} :
    \E out \in {IF now.none THEN Saved(<<>>, NoRatiosText, "")
                ELSE Compose(income_statement, now, today, output_path)} :
        /\ ratios' = now
        /\ ret' = [Returned("generate_summary_report") EXCEPT
                      !.had_ratios = ~ratios.none,
                      !.caught = calc.caught, !.filled = calc.filled,
                      !.raised = out.raised,
                      !.key = IF now.none THEN calc.key ELSE out.key,
                      !.lines = out.lines, !.text = out.text,
                      !.written = out.written,
                      !.printed = calc.printed \o out.printed]
        /\ UNCHANGED <<income_statement, balance_sheet, cash_flow>>

(***************************************************************************)
(* load_statements_from_excel.  A workbook is what pd.read_excel gives for *)
(* each of its three sheets: a DataFrame, or None where the read raises    *)
(* (no such file, no such sheet).                                          *)
(***************************************************************************)
\* The workbooks the loader is given: a dataset, its periods, the rows the
\* sheets lack, and how many of the three sheets can be read.
Fixtures ==
    {[d |-> 1, cols |-> <<"2023-Q1", "2023-Q2">>, lacks |-> {}],
     [d |-> 2, cols |-> <<"2023-Q2">>, lacks |-> {}],
     [d |-> 1, cols |-> <<"", "2023-Q1">>, lacks |-> {}],
     [d |-> 2, cols |-> <<"2023-Q1", "2023-Q2">>, lacks |-> {"Revenue", "Inventory"}]}

Sheet(f, rows) == DataFrame(f.cols, rows \ f.lacks, f.d)

Workbook(f, readable) ==
    [Income_Statement |-> IF readable >= 1 THEN Sheet(f, IncomeRows) ELSE None,
     Balance_Sheet |-> IF readable >= 2 THEN Sheet(f, BalanceRows) ELSE None,
     Cash_Flow |-> IF readable >= 3 THEN Sheet(f, CashRows) ELSE None]

Workbooks == {Workbook(f, n) : f \in Fixtures, n \in 0..3}

LoadError(sheet) ==
    <<"Error loading financial statements: Worksheet named '" \o sheet \o "' not found">>

\* load_statements_from_excel(file_path): the three reads in order (lines
\* 56-58); the first that raises ends the call, what was assigned stays.
Load ==
    \E wb \in Workbooks :
        LET read == IF wb.Income_Statement.none THEN 0
                    ELSE IF wb.Balance_Sheet.none THEN 1
                    ELSE IF wb.Cash_Flow.none THEN 2 ELSE 3
        IN
        /\ income_statement' = IF read >= 1 THEN wb.Income_Statement ELSE income_statement
        /\ balance_sheet' = IF read >= 2 THEN wb.Balance_Sheet ELSE balance_sheet
        /\ cash_flow' = IF read >= 3 THEN wb.Cash_Flow ELSE cash_flow
        /\ ret' = [Returned("load_statements_from_excel") EXCEPT
                      !.ok = (read = 3),
                      !.printed = CASE read = 0 -> LoadError("Income_Statement")
                                    [] read = 1 -> LoadError("Balance_Sheet")
                                    [] read = 2 -> LoadError("Cash_Flow")
                                    [] OTHER -> <<"Successfully loaded financial statements">>]
        /\ UNCHANGED ratios

(***************************************************************************)
(* Spec: an analyzer constructed from the sheets of the workbooks (or      *)
(* None), then any sequence of loads, computations and reports.            *)
(***************************************************************************)
Init ==
    /\ income_statement \in {None} \cup {Sheet(f, IncomeRows) : f \in Fixtures}
    /\ balance_sheet \in {None} \cup {Sheet(f, BalanceRows) : f \in Fixtures}
    /\ cash_flow \in {None} \cup {Sheet(f, CashRows) : f \in Fixtures}
    /\ ratios = None
    /\ ret = Returned("__init__")

Next == Load \/ Calculate \/ Report

Spec == Init /\ [][Next]_vars

(***************************************************************************)
(* SpecInputs: an analyzer constructed from any income statement and       *)
(* balance sheet of the bounded family below, then computations and        *)
(* reports on them.                                                        *)
(***************************************************************************)
\* The most required rows a statement lacks.
MaxMissing == 1

Statements(rows, orders) ==
    {DataFrame(cols, rows \ lacks, d) :
        cols \in orders, d \in Datasets,
        lacks \in {m \in SUBSET rows : Cardinality(m) <= MaxMissing}}

\* The income statement's column order decides the latest and previous
\* period; the balance sheet's columns are only ever matched by label.
InitInputs ==
    /\ income_statement \in {None} \cup Statements(IncomeRows, ColumnOrders(MaxPeriods))
    /\ balance_sheet \in
           {None} \cup Statements(BalanceRows, {s \in ColumnOrders(MaxPeriods) : Ascending(s)})
    /\ cash_flow = None
    /\ ratios = None
    /\ ret = Returned("__init__")

NextInputs == Calculate \/ Report

SpecInputs == InitInputs /\ [][NextInputs]_vars

(***************************************************************************)
(* The ratio catalog, stated cell by cell, and what the claims below       *)
(* observe of a call.                                                      *)
(***************************************************************************)
RequiredIncome ==
    {"Revenue", "Cost of Goods Sold", "Gross Profit", "Operating Income", "Net Income"}

RequiredBalance ==
    {"Current Assets", "Current Liabilities", "Inventory", "Total Liabilities",
     "Total Equity", "Total Assets"}

BothPresent == ~income_statement.none /\ ~balance_sheet.none

\* The required rows absent from their source table.
MissingRows ==
    (RequiredIncome \ income_statement.rows) \cup (RequiredBalance \ balance_sheet.rows)

Complete == BothPresent /\ MissingRows = {}

Calculated == ret.op = "calculate_financial_ratios"

Reported == ret.op = "generate_summary_report"

BalanceOnly == {"Current Ratio", "Quick Ratio", "Debt-to-Equity"}

IncomeOnly == {"Gross Margin", "Operating Margin", "Net Margin"}

\* Period p is a column of every table the ratio's formula reads.
Available(name, p) ==
    /\ name \notin BalanceOnly => p \in Range(income_statement.cols)
    /\ name \notin IncomeOnly => p \in Range(balance_sheet.cols)

Numerator(name, p) ==
    LET I(row) == income_statement.val[row][p]
        B(row) == balance_sheet.val[row][p]
    IN  CASE name = "Current Ratio" -> B("Current Assets")
          [] name = "Quick Ratio" -> Sub(B("Current Assets"), B("Inventory"))
          [] name = "Debt-to-Equity" -> B("Total Liabilities")
          [] name = "Gross Margin" -> I("Gross Profit")
          [] name = "Operating Margin" -> I("Operating Income")
          [] name = "Net Margin" -> I("Net Income")
          [] name = "Return on Assets" -> I("Net Income")
          [] name = "Return on Equity" -> I("Net Income")
          [] name = "Inventory Turnover" -> I("Cost of Goods Sold")
          [] name = "Asset Turnover" -> I("Revenue")

Denominator(name, p) ==
    LET I(row) == income_statement.val[row][p]
        B(row) == balance_sheet.val[row][p]
    IN  CASE name \in {"Current Ratio", "Quick Ratio"} -> B("Current Liabilities")
          [] name \in {"Debt-to-Equity", "Return on Equity"} -> B("Total Equity")
          [] name \in IncomeOnly -> I("Revenue")
          [] name \in {"Return on Assets", "Asset Turnover"} -> B("Total Assets")
          [] name = "Inventory Turnover" -> B("Inventory")

CatalogCell(name, p) == Div(Numerator(name, p), Denominator(name, p))

TenRatios == Range(RatioNames)

\* C1: when both statements are given and a required row is absent from its
\* table, the computation returns no table at all, not even the rows filled
\* before the lookup failed, and reports the KeyError of an absent row.
C1_MissingRowFailsWhole ==
    (Calculated /\ BothPresent /\ MissingRows # {}) =>
        /\ ret.table = None
        /\ ret.raised = "none"
        /\ ret.caught = "KeyError"
        /\ ret.key \in MissingRows
        /\ ret.printed = <<"Error calculating ratios: '" \o ret.key \o "'">>
        /\ ratios = None

\* The balance sheet lacks Inventory: the Current Ratio row had been filled
\* when the Quick Ratio lookup failed.
C1_Witness ==
    /\ Calculated /\ BothPresent
    /\ MissingRows = {"Inventory"}
    /\ Len(income_statement.cols) = 2
    /\ ret.key = "Inventory" /\ ret.filled = 1 /\ ret.table = None

\* C2: with the income statement or the balance sheet absent the call
\* returns None with the missing-input message and evaluates no formula.
C2_AbsentInputNoComputation ==
    (Calculated /\ ~BothPresent) =>
        /\ ret.table = None
        /\ ret.raised = "none" /\ ret.caught = "none"
        /\ ret.filled = 0
        /\ ret.printed =
             <<"Income statement and balance sheet are required to calculate ratios">>
        /\ ret.had_ratios = ~ratios.none

C2_Witness ==
    /\ Calculated
    /\ income_statement.none /\ ~balance_sheet.none
    /\ RequiredBalance \subseteq balance_sheet.rows
    /\ ret.table = None /\ ret.filled = 0

\* C3 as claimed: with all required rows present the table has the income
\* statement's columns, the ten rows, and no cell left undefined because a
\* period is absent from a table its formula reads.
C3_NoCellUndefinedByAbsence ==
    (Calculated /\ Complete) =>
        /\ ~ret.table.none
        /\ ret.table.cols = income_statement.cols
        /\ ret.table.rows = TenRatios
        /\ \A name \in TenRatios, p \in Range(ret.table.cols) : Available(name, p)

\* C3 as amended: the columns are the income statement's and the rows the
\* ten ratios; a cell holds its formula's arithmetic wherever the period is a
\* column of every table the formula reads, and NaN where the balance sheet
\* lacks the period.
C3_ColumnsRowsAndCells ==
    (Calculated /\ Complete) =>
        /\ ~ret.table.none
        /\ ret.table.cols = income_statement.cols
        /\ ret.table.rows = TenRatios
        /\ \A name \in TenRatios, p \in Range(ret.table.cols) :
              ret.table.val[name][p] =
                  IF Available(name, p) THEN CatalogCell(name, p) ELSE NaN

\* The balance sheet lacks a period of the income statement: its Current
\* Ratio is NaN while the Net Margin of the same period is a number.
C3_Witness ==
    /\ Calculated /\ Complete
    /\ \E p \in Range(income_statement.cols) \ Range(balance_sheet.cols) :
          /\ ret.table.val["Current Ratio"][p] = NaN
          /\ IsFinite(ret.table.val["Net Margin"][p])
    /\ \E p \in Range(income_statement.cols) \cap Range(balance_sheet.cols) :
          IsFinite(ret.table.val["Current Ratio"][p])

\* C4: every cell of the returned table is its catalog formula on the line
\* items of its own period, from the source tables the catalog names;
\* 500000 / 400000 is 1.25 and 400000 / 1000000 is 0.40.
C4_CellIsCatalogFormula ==
    (Calculated /\ ~ret.table.none) =>
        \A name \in TenRatios, p \in Range(ret.table.cols) :
            Available(name, p) =>
                /\ ret.table.val[name][p] = CatalogCell(name, p)
                /\ (/\ name = "Current Ratio"
                    /\ balance_sheet.val["Current Assets"][p] = Num(500000)
                    /\ balance_sheet.val["Current Liabilities"][p] = Num(400000))
                   => ret.table.val[name][p] = <<5, 4>>
                /\ (/\ name = "Gross Margin"
                    /\ income_statement.val["Revenue"][p] = Num(1000000)
                    /\ income_statement.val["Gross Profit"][p] = Num(400000))
                   => ret.table.val[name][p] = <<2, 5>>

\* Three periods of the example statements, the spec's two examples among
\* the cells and the periods' values differing.
C4_Witness ==
    /\ Calculated /\ ~ret.table.none
    /\ Len(ret.table.cols) = 3
    /\ Range(balance_sheet.cols) = Labels
    /\ ret.table.val["Current Ratio"]["2023-Q1"] = <<5, 4>>
    /\ ret.table.val["Gross Margin"]["2023-Q1"] = <<2, 5>>
    /\ ret.table.val["Quick Ratio"]["2023-Q2"] = <<1, 1>>
    /\ ret.table.val["Return on Equity"]["2023-Q2"] = <<17, 92>>

\* The operands of the cell are finite numbers and its divisor is not zero.
Regular(name, p) ==
    /\ IsFinite(Numerator(name, p)) /\ IsFinite(Denominator(name, p))
    /\ ~IsZero(Denominator(name, p))

Degenerate == {PosInf, NegInf, NaN}

\* The latest period of the ratios the analyzer holds.
Latest == ratios.cols[Len(ratios.cols)]

\* C5: a zero divisor never fails the computation: all ten rows come back,
\* the cell is +-inf or NaN, every cell with finite operands and a nonzero
\* divisor is finite, and the report on that table is composed, showing inf
\* or nan where the latest period's ratio is one.
C5_ZeroDivisorIsNotAnError ==
    /\ (Calculated /\ Complete) =>
          /\ ~ret.table.none /\ ret.caught = "none" /\ ret.raised = "none"
          /\ ret.table.rows = TenRatios
          /\ \A name \in TenRatios, p \in Range(ret.table.cols) :
                Available(name, p) =>
                    /\ IsZero(Denominator(name, p)) =>
                          ret.table.val[name][p] \in Degenerate
                    /\ Regular(name, p) => IsFinite(ret.table.val[name][p])
    /\ (Reported /\ Complete /\ Len(income_statement.cols) > 0) =>
          /\ ret.raised = "none" /\ Len(ret.lines) >= 18
          /\ ratios.val["Current Ratio"][Latest] \in Degenerate =>
                ret.lines[10] \in {"- Current Ratio: inf", "- Current Ratio: -inf",
                                   "- Current Ratio: nan"}
          /\ ratios.val["Quick Ratio"][Latest] \in Degenerate =>
                ret.lines[11] \in {"- Quick Ratio: inf\n", "- Quick Ratio: -inf\n",
                                   "- Quick Ratio: nan\n"}
          /\ ratios.val["Net Margin"][Latest] \in Degenerate =>
                ret.lines[8] \in {"- Net Margin: inf%\n", "- Net Margin: -inf%\n",
                                  "- Net Margin: nan%\n"}

\* Current Liabilities of the latest period are zero and the report shows
\* the infinite Current Ratio beside a finite Return on Equity.
C5_Witness ==
    /\ Reported /\ Complete /\ ret.raised = "none"
    /\ Len(ratios.cols) = 2
    /\ Latest \in Range(balance_sheet.cols)
    /\ IsZero(balance_sheet.val["Current Liabilities"][Latest])
    /\ ratios.val["Current Ratio"][Latest] = PosInf
    /\ ret.lines[10] = "- Current Ratio: inf"
    /\ ret.lines[11] = "- Quick Ratio: nan\n"
    /\ ret.lines[14] = "- Return on Equity (ROE): 20.00%\n"
    /\ IsFinite(ratios.val["Current Ratio"][ratios.cols[1]])

\* C6 as claimed: a report requested while no ratios are held fails and
\* gives no report.
C6_NoReportBeforeCompute ==
    (Reported /\ ~ret.had_ratios) => (ret.text = NoRatiosText /\ ret.lines = <<>>)

\* C6 as amended: a report requested while no ratios are held first runs the
\* computation itself; it gives the no-ratios message, and no report, exactly
\* when that computation fails, and a report is only ever composed with
\* computed ratios held.
C6_ReportComputesFirst ==
    Reported =>
        /\ (ret.text = NoRatiosText) <=> (~ret.had_ratios /\ ~Complete)
        /\ ret.text = NoRatiosText =>
              (ret.lines = <<>> /\ ret.written = "" /\ ratios.none
               /\ ret.raised = "none")
        /\ ret.lines # <<>> => ~ratios.none
        /\ (~ret.had_ratios /\ Complete) => ~ratios.none

\* No ratios were held and a required row is missing: no report.
C6_Witness ==
    /\ Reported /\ ~ret.had_ratios /\ BothPresent /\ MissingRows # {}
    /\ ret.text = NoRatiosText /\ ret.lines = <<>>

(***************************************************************************)
(* The sections of a composed report.                                      *)
(***************************************************************************)
ChangesHead == "## Period-over-Period Changes\n"

IsSectionHead(line) ==
    line \in {"# Financial Statement Analysis Summary Report",
              "### Revenue and Profit", "### Liquidity", "### Profitability",
              ChangesHead, "## Insights and Recommendations\n"}

Sections(lines) == SelectSeq(lines, IsSectionHead)

MandatorySections(periods) ==
    <<"# Financial Statement Analysis Summary Report",
      "### Revenue and Profit", "### Liquidity", "### Profitability">>
    \o (IF periods >= 2 THEN <<ChangesHead>> ELSE <<>>)
    \o <<"## Insights and Recommendations\n">>

\* C7: a composed report has the period-over-period section exactly when the
\* ratios have two or more periods, whatever their labels, and all the other
\* sections in order.
C7_ChangesIffTwoPeriods ==
    (Reported /\ ret.lines # <<>>) =>
        Sections(ret.lines) = MandatorySections(Len(ratios.cols))

\* C8: the period-over-period lines are Revenue and Net Income growth,
\* latest over previous minus one, and the difference of the two Net Margins,
\* latest and previous being the last two periods, as percentages with two
\* decimals; Revenue 1000000 then 1050000 reads 5.00%.
C8_PeriodOverPeriodFigures ==
    (Reported /\ ChangesHead \in Range(ret.lines)) =>
        LET n == Len(ratios.cols)
            latest == ratios.cols[n]
            previous == ratios.cols[n - 1]
            revenue(p) == income_statement.val["Revenue"][p]
            income(p) == income_statement.val["Net Income"][p]
            margin(p) == ratios.val["Net Margin"][p]
        IN  /\ n >= 2
            /\ ret.lines[15] = ChangesHead
            /\ ret.lines[16] = "- Revenue Growth: "
                   \o FmtPct(Sub(Div(revenue(latest), revenue(previous)), One))
            /\ ret.lines[17] = "- Net Income Growth: "
                   \o FmtPct(Sub(Div(income(latest), income(previous)), One))
            /\ ret.lines[18] = "- Net Margin Change: "
                   \o FmtPct(Sub(margin(latest), margin(previous))) \o " points\n"
            /\ (revenue(previous) = Num(1000000) /\ revenue(latest) = Num(1050000))
                   => ret.lines[16] = "- Revenue Growth: 5.00%"
            /\ (/\ revenue(previous) = Num(1000000) /\ revenue(latest) = Num(1050000)
                /\ income(previous) = Num(150000) /\ income(latest) = Num(170000))
                   => /\ ret.lines[17] = "- Net Income Growth: 13.33%"
                      /\ ret.lines[18] = "- Net Margin Change: 1.19% points\n"

\* Three periods, the last two being 2023-Q1 and 2023-Q2 of the example.
C8_Witness ==
    /\ Reported /\ ChangesHead \in Range(ret.lines)
    /\ ratios.cols = <<"", "2023-Q1", "2023-Q2">>
    /\ ret.lines[16] = "- Revenue Growth: 5.00%"
    /\ ret.lines[18] = "- Net Margin Change: 1.19% points\n"

\* C9: composing from held ratios, an absent period or row of the income
\* statement raises the KeyError of an absent key, and a report that is
\* returned has every section, the period-over-period one being left out
\* only with fewer than two periods.
C9_AbsentKeyOrEverySection ==
    (Reported /\ ~ratios.none /\ Len(ratios.cols) >= 1) =>
        LET n == Len(ratios.cols)
            needed == {ratios.cols[i] : i \in {n - 1, n} \cap DOMAIN ratios.cols}
            absent == (needed \ Range(income_statement.cols))
                      \cup ({"Revenue", "Net Income"} \ income_statement.rows)
        IN  /\ absent # {} =>
                  (ret.raised = "KeyError" /\ ret.key \in absent /\ ret.lines = <<>>)
            /\ absent = {} =>
                  (ret.raised = "none" /\ Sections(ret.lines) = MandatorySections(n))

\* The table a computation on the analyzer's statements produces, from the
\* catalog alone.
FreshTable ==
    [none |-> FALSE, cols |-> income_statement.cols, rows |-> TenRatios,
     val |-> [name \in TenRatios |->
                [p \in Range(income_statement.cols) |->
                    IF Available(name, p) THEN CatalogCell(name, p) ELSE NaN]]]

\* The last call computed the ratios: called directly, or by a report that
\* found none.
ComputeSucceeded ==
    \/ Calculated /\ ~ret.table.none
    \/ Reported /\ ~ret.had_ratios /\ ~ratios.none

\* C10: the slot holds the table of the most recent successful computation:
\* a successful computation leaves in it the table it returns, which is the
\* table of the current statements alone, and nothing else changes the slot.
C10_SlotIsLatestTable ==
    /\ [](ComputeSucceeded =>
            /\ ratios = FreshTable
            /\ Calculated => ratios = ret.table)
    /\ [][ratios' # ratios => ComputeSucceeded']_vars

\* A successful recomputation over a table already held.
C10_Witness ==
    /\ Calculated /\ ret.had_ratios /\ ~ret.table.none
    /\ ratios = ret.table
    /\ Len(ratios.cols) = 1

C12_ReportFiguresConsistent ==
    (Reported /\ ret.raised = "none" /\ ret.lines # <<>>) =>
        LET last == income_statement.cols[Len(income_statement.cols)]
            revenue == income_statement.val["Revenue"][last]
            income == income_statement.val["Net Income"][last]
        IN  /\ ret.lines[2] = "## Period: " \o last
            /\ ret.lines[6] = "- Revenue: $" \o FmtMoney(revenue)
            /\ ret.lines[7] = "- Net Income: $" \o FmtMoney(income)
            /\ ret.lines[8] = "- Net Margin: " \o FmtPct(Div(income, revenue)) \o "\n"

\* The step is a call of calculate_financial_ratios that failed (made
\* directly, or by a report that found no ratios): it printed one of its two
\* messages.
ComputeFailed(r) ==
    /\ r.op \in {"calculate_financial_ratios", "generate_summary_report"}
    /\ r.printed # <<>>
    /\ r.printed[1] \in
          {"Income statement and balance sheet are required to calculate ratios",
           "Error calculating ratios: '" \o r.key \o "'"}

\* C13: a failed computation returns None and leaves the three statements and
\* the slot as they were, and whatever is assigned to the slot is a table the
\* ten formulas filled completely.
C13_FailedCallKeepsState ==
    /\ [][ComputeFailed(ret') =>
            /\ ret'.table.none
            /\ income_statement' = income_statement
            /\ balance_sheet' = balance_sheet
            /\ cash_flow' = cash_flow
            /\ ratios' = ratios]_vars
    /\ [][ratios' # ratios =>
            /\ ~ComputeFailed(ret')
            /\ ret'.filled = Len(RatioNames)
            /\ ratios' = FreshTable']_vars

\* A call that met a missing row after filling a first ratio, on an analyzer
\* holding the table of an earlier computation.
C13_Witness ==
    /\ Calculated /\ ret.caught = "KeyError" /\ ret.filled > 0
    /\ ret.had_ratios /\ ~ratios.none
    /\ ratios.rows = TenRatios

====
